---- MODULE Spec2Model ----
(***************************************************************************)
(* Model of pkg/github/issue_dependencies.go: the four issue-dependency    *)
(* tool handlers (list_blocked_by, list_blocking, add_blocked_by,          *)
(* remove_blocked_by) and the three request helpers they call.             *)
(*                                                                         *)
(* One handler invocation is one action.  Its inputs (the argument map,    *)
(* and what the injected client and the remote service answer) are drawn   *)
(* from small sets; the state after the action holds the value the handler *)
(* returned, the request it built, the response it obtained and the log of *)
(* the external calls it made, in order.                                   *)
(*                                                                         *)
(* Text is modelled as TLA+ strings, character for character.  A nilable   *)
(* Go value (pointer, error, slice, map) is a sequence of length at most   *)
(* one: <<>> is nil.                                                       *)
(***************************************************************************)
EXTENDS Integers, Sequences, FiniteSets, TLC

VARIABLES pc, tool, args, result, herr, exit, log, req, resp, doErr

vars == <<pc, tool, args, result, herr, exit, log, req, resp, doErr>>

(* ------------------------------ bounds -------------------------------- *)

\* issue numbers offered by callers are -1 and 1 .. MaxIssue
MaxIssue == 2
\* page and per_page offered by callers range over 0 .. MaxPage
MaxPage == 1
\* a response carries at most MaxDeps dependency records
MaxDeps == 2

(* ------------------------- program constants -------------------------- *)

StatusOK == 200
StatusCreated == 201
StatusNoContent == 204

(* ------------------------------- text --------------------------------- *)

Nil == <<>>

Digits == "0123456789"

RECURSIVE ItoaNat(_)
\* the decimal digits of n >= 0, as fmt's %d and encoding/json print them
ItoaNat(n) ==
    IF n < 10 THEN SubSeq(Digits, n + 1, n + 1)
    ELSE ItoaNat(n \div 10) \o SubSeq(Digits, (n % 10) + 1, (n % 10) + 1)

\* %d of a Go int
Itoa(n) == IF n < 0 THEN "-" \o ItoaNat(0 - n) ELSE ItoaNat(n)

\* a JSON string literal (the model's strings hold no character to escape)
Quote(s) == "\"" \o s \o "\""

\* strings.Contains(s, sub)
Contains(s, sub) ==
    \E i \in 1..(Len(s) - Len(sub) + 1) : SubSeq(s, i, i + Len(sub) - 1) = sub

RECURSIVE JoinComma(_)
JoinComma(ss) ==
    IF ss = <<>> THEN ""
    ELSE IF Len(ss) = 1 THEN ss[1]
    ELSE ss[1] \o "," \o JoinComma(Tail(ss))

(* --------------------------- argument maps ---------------------------- *)

ParamNames ==
    {"owner", "repo", "issue_number", "blocked_by_issue_number",
     "blocked_by_owner", "blocked_by_repo", "page", "per_page"}

\* a value of the untyped map: absent, a JSON string, or a JSON number
Absent == [t |-> "absent", s |-> "", n |-> 0]
Str(s) == [t |-> "string", s |-> s, n |-> 0]
Num(n) == [t |-> "number", s |-> "", n |-> n]

\* Required parameters are offered absent, of the wrong type, or with a value.
\* The zero values ("" and 0) are not offered for them: how the validator
\* treats a required parameter that is present with its zero value is not
\* decided by this file.
OwnerValues == {Absent, Num(1), Str("o")}
RepoValues == {Absent, Num(1), Str("r")}
IssueValues == {Absent, Str("x"), Num(0 - 1)} \cup {Num(n) : n \in 1..MaxIssue}
BlockedByOwnerValues == {Absent, Num(1), Str(""), Str("o"), Str("x")}
BlockedByRepoValues == {Absent, Num(1), Str(""), Str("r"), Str("y")}
PageValues == {Absent, Str("x")} \cup {Num(n) : n \in 0..MaxPage}

ListArgs ==
    {[p \in ParamNames |->
        CASE p = "owner" -> o
          [] p = "repo" -> r
          [] p = "issue_number" -> i
          [] p = "page" -> pg
          [] p = "per_page" -> pp
          [] OTHER -> Absent] :
      o \in OwnerValues, r \in RepoValues, i \in IssueValues,
      pg \in PageValues, pp \in PageValues}

EditArgs ==
    {[p \in ParamNames |->
        CASE p = "owner" -> o
          [] p = "repo" -> r
          [] p = "issue_number" -> i
          [] p = "blocked_by_issue_number" -> bi
          [] p = "blocked_by_owner" -> bo
          [] p = "blocked_by_repo" -> br
          [] OTHER -> Absent] :
      o \in OwnerValues, r \in RepoValues, i \in IssueValues,
      bi \in IssueValues, bo \in BlockedByOwnerValues,
      br \in BlockedByRepoValues}

NoArgs == [p \in ParamNames |-> Absent]

(* ------------------------- parameter validator ------------------------ *)

\* RequiredParam[string](args, p): the value, or the error text
RequiredParam(a, p) ==
    IF a[p].t = "absent"
      THEN [v |-> "", err |-> <<"missing required parameter: " \o p>>]
    ELSE IF a[p].t # "string"
      THEN [v |-> "", err |-> <<"parameter " \o p \o " is not of type string">>]
    ELSE [v |-> a[p].s, err |-> Nil]

\* RequiredInt(args, p): the number as an int, or the error text
RequiredInt(a, p) ==
    IF a[p].t = "absent"
      THEN [v |-> 0, err |-> <<"missing required parameter: " \o p>>]
    ELSE IF a[p].t # "number"
      THEN [v |-> 0, err |-> <<"parameter " \o p \o " is not of type float64">>]
    ELSE [v |-> a[p].n, err |-> Nil]

\* OptionalParam[string](args, p): the zero value when absent
OptionalParam(a, p) ==
    IF a[p].t = "absent" THEN [v |-> "", err |-> Nil]
    ELSE IF a[p].t # "string"
      THEN [v |-> "",
            err |-> <<"parameter " \o p \o " is not of type string, is float64">>]
    ELSE [v |-> a[p].s, err |-> Nil]

\* an optional whole number: the zero value when absent
OptionalIntParam(a, p) ==
    IF a[p].t = "absent" THEN [v |-> 0, err |-> Nil]
    ELSE IF a[p].t # "number"
      THEN [v |-> 0,
            err |-> <<"parameter " \o p \o " is not of type float64, is string">>]
    ELSE [v |-> a[p].n, err |-> Nil]

\* OptionalPaginationParams(args): PaginationParams{Page, PerPage}
OptionalPaginationParams(a) ==
    LET page == OptionalIntParam(a, "page")
        perPage == OptionalIntParam(a, "per_page")
    IN IF page.err # Nil THEN [v |-> [Page |-> 0, PerPage |-> 0], err |-> page.err]
       ELSE IF perPage.err # Nil
         THEN [v |-> [Page |-> 0, PerPage |-> 0], err |-> perPage.err]
       ELSE [v |-> [Page |-> page.v, PerPage |-> perPage.v], err |-> Nil]

(* ---------------------------- tool results ---------------------------- *)

\* utils.NewToolResultText(text)
NewToolResultText(text) == <<[IsError |-> FALSE, Text |-> text]>>

\* utils.NewToolResultError(message)
NewToolResultError(message) == <<[IsError |-> TRUE, Text |-> message]>>

\* utils.NewToolResultErrorFromErr(message, err)
NewToolResultErrorFromErr(message, err) ==
    <<[IsError |-> TRUE, Text |-> message \o ": " \o err[1]]>>

\* ghErrors.NewGitHubAPIErrorResponse(ctx, message, resp, err): the API error
\* result; it reads nothing from resp and does not close its body
NewGitHubAPIErrorResponse(message, r, err) ==
    NewToolResultErrorFromErr(message, err)

(* ------------------- the client and the remote service ---------------- *)

\* IssueDependency records the remote service may send
DepRecords ==
    {[Number |-> 10, Title |-> "A", State |-> "open", HTMLURL |-> "u/10"],
     [Number |-> 7, Title |-> "B", State |-> "closed", HTMLURL |-> "u/7"]}

RECURSIVE SeqsUpTo(_, _)
SeqsUpTo(S, n) ==
    IF n = 0 THEN {<<>>}
    ELSE LET shorter == SeqsUpTo(S, n - 1)
         IN shorter \cup {Append(q, x) : q \in shorter, x \in S}

DepLists == SeqsUpTo(DepRecords, MaxDeps)

\* one record as the remote service writes it and as encoding/json writes it
\* (struct fields in declaration order)
DepJSON(d) ==
    "{\"number\":" \o Itoa(d.Number) \o ",\"title\":" \o Quote(d.Title)
      \o ",\"state\":" \o Quote(d.State) \o ",\"html_url\":" \o Quote(d.HTMLURL)
      \o "}"

ArrayJSON(ds) == "[" \o JoinComma([k \in 1..Len(ds) |-> DepJSON(ds[k])]) \o "]"

\* What a response carries: its raw body, and what decoding the body yields:
\* Deps is IssueDependenciesResponse.Dependencies (nil when the body has no
\* "dependencies" member), Obj is the map[string]any, held as its canonical
\* JSON text (nil when the body is empty).
Payloads ==
    {[Body |-> "", Deps |-> Nil, Obj |-> Nil],
     [Body |-> "{}", Deps |-> Nil, Obj |-> <<"{}">>],
     [Body |-> "{\"message\":\"Not Found\"}", Deps |-> Nil,
      Obj |-> <<"{\"message\":\"Not Found\"}">>]}
    \cup {[Body |-> "{\"dependencies\":" \o ArrayJSON(ds) \o "}",
           Deps |-> <<ds>>,
           Obj |-> <<"{\"dependencies\":" \o ArrayJSON(ds) \o "}">>] :
          ds \in DepLists}

Statuses == {StatusOK, StatusCreated, StatusNoContent, 404}

Responses ==
    {[StatusCode |-> st, Body |-> p.Body, Deps |-> p.Deps, Obj |-> p.Obj] :
      st \in Statuses, p \in Payloads}

\* getClient(ctx): the client, or an error
GetClientOutcomes == {Nil, <<"no token">>}

\* client.NewRequest(method, url, body): the request, or an error
NewRequestOutcomes == {Nil, <<"invalid URL escape">>}

\* client.Do(ctx, req, &v): (resp, err).  A transport failure has no response;
\* the client may also return an error together with the response; with a nil
\* error there is a response.
DoOutcomes ==
    {[resp |-> Nil, err |-> <<"connection refused">>]}
    \cup {[resp |-> <<r>>, err |-> <<"client error">>] : r \in Responses}
    \cup {[resp |-> <<r>>, err |-> Nil] : r \in Responses}

\* io.ReadAll(resp.Body): the body text, or an error
ReadAllOutcomes(r) ==
    {[body |-> r.Body, err |-> Nil], [body |-> "", err |-> <<"unexpected EOF">>]}

\* json.Marshal(deps.Dependencies): a nil slice encodes as null
MarshalDependencies(deps) ==
    IF deps = Nil THEN "null" ELSE ArrayJSON(deps[1])

\* json.Marshal(result) of the decoded map[string]any: a nil map encodes as null
MarshalObject(obj) == IF obj = Nil THEN "null" ELSE obj[1]

\* json.Marshal(reqBody) of a DependencyRequest
MarshalDependencyRequest(b) ==
    "{\"owner\":" \o Quote(b.Owner) \o ",\"repo\":" \o Quote(b.Repo)
      \o ",\"issue_number\":" \o Itoa(b.IssueNumber) \o "}"

\* The error of a json.Marshal call.  The values encoded here (a struct of
\* two strings and an int, a slice of such structs, a map decoded from JSON)
\* are values encoding/json always encodes, so the error is always nil and
\* the branches that handle it are never taken.
MarshalOutcomes == {Nil}

(* --------------------------- what a call yields ----------------------- *)

\* One way a handler invocation can end: the (result, error) it returns, the
\* return statement it left by, the external calls it made in order, the
\* request it built, and what client.Do gave it.
Out(res, e, ex, lg, rq, rs, de) ==
    [result |-> res, herr |-> e, exit |-> ex, log |-> lg,
     req |-> rq, resp |-> rs, doErr |-> de]

\* the calls a handler made before it called its helper come first in the log
After(prefix, outs) == {[o EXCEPT !.log = prefix \o o.log] : o \in outs}

(* ------------------------ listIssueDependencies ----------------------- *)

\* listURL asking for both page and per_page before it adds the query string
listURLBothSet(owner, repo, issueNumber, dependencyType, pagination) ==
    LET url == "repos/" \o owner \o "/" \o repo \o "/issues/"
                 \o Itoa(issueNumber) \o "/dependencies/" \o dependencyType
    IN IF pagination.Page > 0 /\ pagination.PerPage > 0
         THEN url \o "?page=" \o Itoa(pagination.Page)
                  \o "&per_page=" \o Itoa(pagination.PerPage)
         ELSE url

\* the URL of a list request
listURL(owner, repo, issueNumber, dependencyType, pagination) ==
    LET url == "repos/" \o owner \o "/" \o repo \o "/issues/"
                 \o Itoa(issueNumber) \o "/dependencies/" \o dependencyType
    IN IF pagination.Page > 0 \/ pagination.PerPage > 0
         THEN url \o "?page=" \o Itoa(pagination.Page)
                  \o "&per_page=" \o Itoa(pagination.PerPage)
         ELSE url

\* whether listIssueDependencies treats the status code as success
listAccepted(status) == status = StatusOK

\* listClientError sending the request a second time before it gives up
listClientErrorRetry(dependencyType, request, d) ==
    Out(NewGitHubAPIErrorResponse(
          "failed to list " \o dependencyType \o " dependencies", d.resp, d.err),
        Nil, "clientError", <<"NewRequest", "Do", "Do">>,
        <<request>>, d.resp, d.err)

\* client.Do returned an error: the API error result, and no more
listClientError(dependencyType, request, d) ==
    Out(NewGitHubAPIErrorResponse(
          "failed to list " \o dependencyType \o " dependencies", d.resp, d.err),
        Nil, "clientError", <<"NewRequest", "Do">>,
        <<request>>, d.resp, d.err)

\* a status code that is not accepted: the raw body becomes the message; the
\* deferred Close runs as the function returns
listUnexpectedStatus(request, d) ==
    {IF ra.err # Nil
       THEN Out(Nil, <<"failed to read response body: " \o ra.err[1]>>,
                "readBody", <<"NewRequest", "Do", "ReadAll", "Close">>,
                <<request>>, d.resp, Nil)
       ELSE Out(NewToolResultError("failed to list dependencies: " \o ra.body),
                Nil, "status", <<"NewRequest", "Do", "ReadAll", "Close">>,
                <<request>>, d.resp, Nil) :
     ra \in ReadAllOutcomes(d.resp[1])}

\* an accepted status code: the decoded value is encoded again; the deferred
\* Close runs as the function returns
listSuccess(request, d) ==
    {IF m # Nil
       THEN Out(Nil, <<"failed to marshal response: " \o m[1]>>,
                "marshalResponse", <<"NewRequest", "Do", "Marshal", "Close">>,
                <<request>>, d.resp, Nil)
       ELSE Out(NewToolResultText(MarshalDependencies(d.resp[1].Deps)),
                Nil, "success", <<"NewRequest", "Do", "Marshal", "Close">>,
                <<request>>, d.resp, Nil) :
     m \in MarshalOutcomes}

\* from the return of client.Do to the return of listIssueDependencies
listResponse(dependencyType, request, d) ==
    IF d.err # Nil THEN {listClientError(dependencyType, request, d)}
    ELSE IF ~listAccepted(d.resp[1].StatusCode)
      THEN listUnexpectedStatus(request, d)
    ELSE listSuccess(request, d)

listIssueDependencies(owner, repo, issueNumber, dependencyType, pagination) ==
    LET request ==
          [Method |-> "GET",
           URL |-> listURL(owner, repo, issueNumber, dependencyType, pagination),
           Body |-> Nil]
    IN UNION {IF nr # Nil
                THEN {Out(Nil, <<"failed to create request: " \o nr[1]>>,
                          "newRequest", <<"NewRequest">>, Nil, Nil, Nil)}
                ELSE UNION {listResponse(dependencyType, request, d) :
                            d \in DoOutcomes} :
              nr \in NewRequestOutcomes}

(* -------------------------- addIssueDependency ------------------------ *)

\* addAccepted taking 200 alone as success
addAcceptedOnlyOK(status) == status = StatusOK

\* whether addIssueDependency treats the status code as success
addAccepted(status) == status = StatusOK \/ status = StatusCreated

\* client.Do returned an error: the API error result, and no more
addClientError(request, d) ==
    Out(NewGitHubAPIErrorResponse("failed to add blocked_by dependency", d.resp, d.err),
        Nil, "clientError", <<"Marshal", "NewRequest", "Do">>,
        <<request>>, d.resp, d.err)

\* a status code that is not accepted: the raw body becomes the message; the
\* deferred Close runs as the function returns
addUnexpectedStatus(request, d) ==
    {IF ra.err # Nil
       THEN Out(Nil, <<"failed to read response body: " \o ra.err[1]>>,
                "readBody", <<"Marshal", "NewRequest", "Do", "ReadAll", "Close">>,
                <<request>>, d.resp, Nil)
       ELSE Out(NewToolResultError("failed to add dependency: " \o ra.body),
                Nil, "status", <<"Marshal", "NewRequest", "Do", "ReadAll", "Close">>,
                <<request>>, d.resp, Nil) :
     ra \in ReadAllOutcomes(d.resp[1])}

\* an accepted status code: the decoded value is encoded again; the deferred
\* Close runs as the function returns
addSuccess(request, d) ==
    {IF m # Nil
       THEN Out(Nil, <<"failed to marshal response: " \o m[1]>>,
                "marshalResponse", <<"Marshal", "NewRequest", "Do", "Marshal", "Close">>,
                <<request>>, d.resp, Nil)
       ELSE Out(NewToolResultText(MarshalObject(d.resp[1].Obj)),
                Nil, "success", <<"Marshal", "NewRequest", "Do", "Marshal", "Close">>,
                <<request>>, d.resp, Nil) :
     m \in MarshalOutcomes}

\* from the return of client.Do to the return of addIssueDependency
addResponse(request, d) ==
    IF d.err # Nil THEN {addClientError(request, d)}
    ELSE IF ~addAccepted(d.resp[1].StatusCode)
      THEN addUnexpectedStatus(request, d)
    ELSE addSuccess(request, d)

addIssueDependency(owner, repo, issueNumber, blockedByOwner, blockedByRepo, blockedByIssueNumber) ==
    LET url == "repos/" \o owner \o "/" \o repo \o "/issues/"
                 \o Itoa(issueNumber) \o "/dependencies/blocked_by"
        reqBody == [Owner |-> blockedByOwner, Repo |-> blockedByRepo,
                    IssueNumber |-> blockedByIssueNumber]
        request == [Method |-> "POST", URL |-> url,
                    Body |-> <<MarshalDependencyRequest(reqBody)>>]
    IN UNION {IF mb # Nil
                THEN {Out(Nil, <<"failed to marshal request body: " \o mb[1]>>,
                          "marshalRequest", <<"Marshal">>, Nil, Nil, Nil)}
                ELSE UNION {IF nr # Nil
                              THEN {Out(Nil,
                                        <<"failed to create request: " \o nr[1]>>,
                                        "newRequest", <<"Marshal", "NewRequest">>,
                                        Nil, Nil, Nil)}
                              ELSE UNION {addResponse(request, d) :
                                          d \in DoOutcomes} :
                            nr \in NewRequestOutcomes} :
              mb \in MarshalOutcomes}

(* ------------------------- removeIssueDependency ---------------------- *)

\* removeAccepted taking every status code as success
removeAcceptedAnyStatus(status) == status \in Statuses

\* whether removeIssueDependency treats the status code as success
removeAccepted(status) == status = StatusOK \/ status = StatusNoContent

\* client.Do returned an error: the API error result, and no more
removeClientError(request, d) ==
    Out(NewGitHubAPIErrorResponse("failed to remove blocked_by dependency", d.resp, d.err),
        Nil, "clientError", <<"Marshal", "NewRequest", "Do">>,
        <<request>>, d.resp, d.err)

\* a status code that is not accepted: the raw body becomes the message; the
\* deferred Close runs as the function returns
removeUnexpectedStatus(request, d) ==
    {IF ra.err # Nil
       THEN Out(Nil, <<"failed to read response body: " \o ra.err[1]>>,
                "readBody", <<"Marshal", "NewRequest", "Do", "ReadAll", "Close">>,
                <<request>>, d.resp, Nil)
       ELSE Out(NewToolResultError("failed to remove dependency: " \o ra.body),
                Nil, "status", <<"Marshal", "NewRequest", "Do", "ReadAll", "Close">>,
                <<request>>, d.resp, Nil) :
     ra \in ReadAllOutcomes(d.resp[1])}

\* an accepted status code: the decoded value is encoded again; the deferred
\* Close runs as the function returns
removeSuccess(request, d) ==
    {IF m # Nil
       THEN Out(Nil, <<"failed to marshal response: " \o m[1]>>,
                "marshalResponse", <<"Marshal", "NewRequest", "Do", "Marshal", "Close">>,
                <<request>>, d.resp, Nil)
       ELSE Out(NewToolResultText(MarshalObject(d.resp[1].Obj)),
                Nil, "success", <<"Marshal", "NewRequest", "Do", "Marshal", "Close">>,
                <<request>>, d.resp, Nil) :
     m \in MarshalOutcomes}

\* from the return of client.Do to the return of removeIssueDependency
removeResponse(request, d) ==
    IF d.err # Nil THEN {removeClientError(request, d)}
    ELSE IF ~removeAccepted(d.resp[1].StatusCode)
      THEN removeUnexpectedStatus(request, d)
    ELSE removeSuccess(request, d)

\* removeIssueDependency putting the blocked issue's own number in the body
removeIssueDependencyOwnNumber(owner, repo, issueNumber, blockedByOwner, blockedByRepo, blockedByIssueNumber) ==
    LET url == "repos/" \o owner \o "/" \o repo \o "/issues/"
                 \o Itoa(issueNumber) \o "/dependencies/blocked_by"
        reqBody == [Owner |-> blockedByOwner, Repo |-> blockedByRepo,
                    IssueNumber |-> issueNumber]
        request == [Method |-> "DELETE", URL |-> url,
                    Body |-> <<MarshalDependencyRequest(reqBody)>>]
    IN UNION {IF mb # Nil
                THEN {Out(Nil, <<"failed to marshal request body: " \o mb[1]>>,
                          "marshalRequest", <<"Marshal">>, Nil, Nil, Nil)}
                ELSE UNION {IF nr # Nil
                              THEN {Out(Nil,
                                        <<"failed to create request: " \o nr[1]>>,
                                        "newRequest", <<"Marshal", "NewRequest">>,
                                        Nil, Nil, Nil)}
                              ELSE UNION {removeResponse(request, d) :
                                          d \in DoOutcomes} :
                            nr \in NewRequestOutcomes} :
              mb \in MarshalOutcomes}

\* removeIssueDependency: the DELETE request and the handling of its answer
removeIssueDependency(owner, repo, issueNumber, blockedByOwner, blockedByRepo, blockedByIssueNumber) ==
    LET url == "repos/" \o owner \o "/" \o repo \o "/issues/"
                 \o Itoa(issueNumber) \o "/dependencies/blocked_by"
        reqBody == [Owner |-> blockedByOwner, Repo |-> blockedByRepo,
                    IssueNumber |-> blockedByIssueNumber]
        request == [Method |-> "DELETE", URL |-> url,
                    Body |-> <<MarshalDependencyRequest(reqBody)>>]
    IN UNION {IF mb # Nil
                THEN {Out(Nil, <<"failed to marshal request body: " \o mb[1]>>,
                          "marshalRequest", <<"Marshal">>, Nil, Nil, Nil)}
                ELSE UNION {IF nr # Nil
                              THEN {Out(Nil,
                                        <<"failed to create request: " \o nr[1]>>,
                                        "newRequest", <<"Marshal", "NewRequest">>,
                                        Nil, Nil, Nil)}
                              ELSE UNION {removeResponse(request, d) :
                                          d \in DoOutcomes} :
                            nr \in NewRequestOutcomes} :
              mb \in MarshalOutcomes}

(* ------------------------------ handlers ------------------------------ *)

\* the handler of issue_dependencies.list_blocked_by
ListBlockedBy(a) ==
    LET owner == RequiredParam(a, "owner")
        repo == RequiredParam(a, "repo")
        issueNumber == RequiredInt(a, "issue_number")
        pagination == OptionalPaginationParams(a)
    IN IF owner.err # Nil
         THEN {Out(NewToolResultError(owner.err[1]), Nil, "validation",
                   <<>>, Nil, Nil, Nil)}
       ELSE IF repo.err # Nil
         THEN {Out(NewToolResultError(repo.err[1]), Nil, "validation",
                   <<>>, Nil, Nil, Nil)}
       ELSE IF issueNumber.err # Nil
         THEN {Out(NewToolResultError(issueNumber.err[1]), Nil, "validation",
                   <<>>, Nil, Nil, Nil)}
       ELSE IF pagination.err # Nil
         THEN {Out(NewToolResultError(pagination.err[1]), Nil, "validation",
                   <<>>, Nil, Nil, Nil)}
       ELSE UNION {IF c # Nil
                     THEN {Out(NewToolResultErrorFromErr(
                                 "failed to get GitHub client", c),
                               Nil, "getClient", <<"getClient">>, Nil, Nil, Nil)}
                     ELSE After(<<"getClient">>,
                                listIssueDependencies(owner.v, repo.v,
                                    issueNumber.v, "blocked_by", pagination.v)) :
                   c \in GetClientOutcomes}

\* ListBlocking reading repo before owner
ListBlockingRepoFirst(a) ==
    LET owner == RequiredParam(a, "owner")
        repo == RequiredParam(a, "repo")
        issueNumber == RequiredInt(a, "issue_number")
        pagination == OptionalPaginationParams(a)
    IN IF repo.err # Nil
         THEN {Out(NewToolResultError(repo.err[1]), Nil, "validation",
                   <<>>, Nil, Nil, Nil)}
       ELSE IF owner.err # Nil
         THEN {Out(NewToolResultError(owner.err[1]), Nil, "validation",
                   <<>>, Nil, Nil, Nil)}
       ELSE IF issueNumber.err # Nil
         THEN {Out(NewToolResultError(issueNumber.err[1]), Nil, "validation",
                   <<>>, Nil, Nil, Nil)}
       ELSE IF pagination.err # Nil
         THEN {Out(NewToolResultError(pagination.err[1]), Nil, "validation",
                   <<>>, Nil, Nil, Nil)}
       ELSE UNION {IF c # Nil
                     THEN {Out(NewToolResultErrorFromErr(
                                 "failed to get GitHub client", c),
                               Nil, "getClient", <<"getClient">>, Nil, Nil, Nil)}
                     ELSE After(<<"getClient">>,
                                listIssueDependencies(owner.v, repo.v,
                                    issueNumber.v, "blocking", pagination.v)) :
                   c \in GetClientOutcomes}

\* the handler of issue_dependencies.list_blocking
ListBlocking(a) ==
    LET owner == RequiredParam(a, "owner")
        repo == RequiredParam(a, "repo")
        issueNumber == RequiredInt(a, "issue_number")
        pagination == OptionalPaginationParams(a)
    IN IF owner.err # Nil
         THEN {Out(NewToolResultError(owner.err[1]), Nil, "validation",
                   <<>>, Nil, Nil, Nil)}
       ELSE IF repo.err # Nil
         THEN {Out(NewToolResultError(repo.err[1]), Nil, "validation",
                   <<>>, Nil, Nil, Nil)}
       ELSE IF issueNumber.err # Nil
         THEN {Out(NewToolResultError(issueNumber.err[1]), Nil, "validation",
                   <<>>, Nil, Nil, Nil)}
       ELSE IF pagination.err # Nil
         THEN {Out(NewToolResultError(pagination.err[1]), Nil, "validation",
                   <<>>, Nil, Nil, Nil)}
       ELSE UNION {IF c # Nil
                     THEN {Out(NewToolResultErrorFromErr(
                                 "failed to get GitHub client", c),
                               Nil, "getClient", <<"getClient">>, Nil, Nil, Nil)}
                     ELSE After(<<"getClient">>,
                                listIssueDependencies(owner.v, repo.v,
                                    issueNumber.v, "blocking", pagination.v)) :
                   c \in GetClientOutcomes}

\* AddBlockedBy without the check of RequiredInt's error for
\* blocked_by_issue_number
AddBlockedByUnchecked(a) ==
    LET owner == RequiredParam(a, "owner")
        repo == RequiredParam(a, "repo")
        issueNumber == RequiredInt(a, "issue_number")
        blockedByIssueNumber == RequiredInt(a, "blocked_by_issue_number")
        blockedByOwner == OptionalParam(a, "blocked_by_owner")
        blockedByRepo == OptionalParam(a, "blocked_by_repo")
    IN IF owner.err # Nil
         THEN {Out(NewToolResultError(owner.err[1]), Nil, "validation",
                   <<>>, Nil, Nil, Nil)}
       ELSE IF repo.err # Nil
         THEN {Out(NewToolResultError(repo.err[1]), Nil, "validation",
                   <<>>, Nil, Nil, Nil)}
       ELSE IF issueNumber.err # Nil
         THEN {Out(NewToolResultError(issueNumber.err[1]), Nil, "validation",
                   <<>>, Nil, Nil, Nil)}
       ELSE IF blockedByOwner.err # Nil
         THEN {Out(NewToolResultError(blockedByOwner.err[1]), Nil, "validation",
                   <<>>, Nil, Nil, Nil)}
       ELSE IF blockedByRepo.err # Nil
         THEN {Out(NewToolResultError(blockedByRepo.err[1]), Nil, "validation",
                   <<>>, Nil, Nil, Nil)}
       ELSE UNION {IF c # Nil
                     THEN {Out(NewToolResultErrorFromErr(
                                 "failed to get GitHub client", c),
                               Nil, "getClient", <<"getClient">>, Nil, Nil, Nil)}
                     ELSE After(<<"getClient">>,
                                addIssueDependency(owner.v, repo.v, issueNumber.v,
                                    IF blockedByOwner.v = "" THEN owner.v
                                    ELSE blockedByOwner.v,
                                    IF blockedByRepo.v = "" THEN repo.v
                                    ELSE blockedByRepo.v,
                                    blockedByIssueNumber.v)) :
                   c \in GetClientOutcomes}

\* the handler of issue_dependencies.add_blocked_by
AddBlockedBy(a) ==
    LET owner == RequiredParam(a, "owner")
        repo == RequiredParam(a, "repo")
        issueNumber == RequiredInt(a, "issue_number")
        blockedByIssueNumber == RequiredInt(a, "blocked_by_issue_number")
        blockedByOwner == OptionalParam(a, "blocked_by_owner")
        blockedByRepo == OptionalParam(a, "blocked_by_repo")
    IN IF owner.err # Nil
         THEN {Out(NewToolResultError(owner.err[1]), Nil, "validation",
                   <<>>, Nil, Nil, Nil)}
       ELSE IF repo.err # Nil
         THEN {Out(NewToolResultError(repo.err[1]), Nil, "validation",
                   <<>>, Nil, Nil, Nil)}
       ELSE IF issueNumber.err # Nil
         THEN {Out(NewToolResultError(issueNumber.err[1]), Nil, "validation",
                   <<>>, Nil, Nil, Nil)}
       ELSE IF blockedByIssueNumber.err # Nil
         THEN {Out(NewToolResultError(blockedByIssueNumber.err[1]), Nil,
                   "validation", <<>>, Nil, Nil, Nil)}
       ELSE IF blockedByOwner.err # Nil
         THEN {Out(NewToolResultError(blockedByOwner.err[1]), Nil, "validation",
                   <<>>, Nil, Nil, Nil)}
       ELSE IF blockedByRepo.err # Nil
         THEN {Out(NewToolResultError(blockedByRepo.err[1]), Nil, "validation",
                   <<>>, Nil, Nil, Nil)}
       ELSE UNION {IF c # Nil
                     THEN {Out(NewToolResultErrorFromErr(
                                 "failed to get GitHub client", c),
                               Nil, "getClient", <<"getClient">>, Nil, Nil, Nil)}
                     ELSE After(<<"getClient">>,
                                addIssueDependency(owner.v, repo.v, issueNumber.v,
                                    IF blockedByOwner.v = "" THEN owner.v
                                    ELSE blockedByOwner.v,
                                    IF blockedByRepo.v = "" THEN repo.v
                                    ELSE blockedByRepo.v,
                                    blockedByIssueNumber.v)) :
                   c \in GetClientOutcomes}

\* RemoveBlockedBy without the defaulting of an empty blocked_by_owner
RemoveBlockedByNoDefault(a) ==
    LET owner == RequiredParam(a, "owner")
        repo == RequiredParam(a, "repo")
        issueNumber == RequiredInt(a, "issue_number")
        blockedByIssueNumber == RequiredInt(a, "blocked_by_issue_number")
        blockedByOwner == OptionalParam(a, "blocked_by_owner")
        blockedByRepo == OptionalParam(a, "blocked_by_repo")
    IN IF owner.err # Nil
         THEN {Out(NewToolResultError(owner.err[1]), Nil, "validation",
                   <<>>, Nil, Nil, Nil)}
       ELSE IF repo.err # Nil
         THEN {Out(NewToolResultError(repo.err[1]), Nil, "validation",
                   <<>>, Nil, Nil, Nil)}
       ELSE IF issueNumber.err # Nil
         THEN {Out(NewToolResultError(issueNumber.err[1]), Nil, "validation",
                   <<>>, Nil, Nil, Nil)}
       ELSE IF blockedByIssueNumber.err # Nil
         THEN {Out(NewToolResultError(blockedByIssueNumber.err[1]), Nil,
                   "validation", <<>>, Nil, Nil, Nil)}
       ELSE IF blockedByOwner.err # Nil
         THEN {Out(NewToolResultError(blockedByOwner.err[1]), Nil, "validation",
                   <<>>, Nil, Nil, Nil)}
       ELSE IF blockedByRepo.err # Nil
         THEN {Out(NewToolResultError(blockedByRepo.err[1]), Nil, "validation",
                   <<>>, Nil, Nil, Nil)}
       ELSE UNION {IF c # Nil
                     THEN {Out(NewToolResultErrorFromErr(
                                 "failed to get GitHub client", c),
                               Nil, "getClient", <<"getClient">>, Nil, Nil, Nil)}
                     ELSE After(<<"getClient">>,
                                removeIssueDependency(owner.v, repo.v, issueNumber.v,
                                    blockedByOwner.v,
                                    IF blockedByRepo.v = "" THEN repo.v
                                    ELSE blockedByRepo.v,
                                    blockedByIssueNumber.v)) :
                   c \in GetClientOutcomes}

\* the handler of issue_dependencies.remove_blocked_by
RemoveBlockedBy(a) ==
    LET owner == RequiredParam(a, "owner")
        repo == RequiredParam(a, "repo")
        issueNumber == RequiredInt(a, "issue_number")
        blockedByIssueNumber == RequiredInt(a, "blocked_by_issue_number")
        blockedByOwner == OptionalParam(a, "blocked_by_owner")
        blockedByRepo == OptionalParam(a, "blocked_by_repo")
    IN IF owner.err # Nil
         THEN {Out(NewToolResultError(owner.err[1]), Nil, "validation",
                   <<>>, Nil, Nil, Nil)}
       ELSE IF repo.err # Nil
         THEN {Out(NewToolResultError(repo.err[1]), Nil, "validation",
                   <<>>, Nil, Nil, Nil)}
       ELSE IF issueNumber.err # Nil
         THEN {Out(NewToolResultError(issueNumber.err[1]), Nil, "validation",
                   <<>>, Nil, Nil, Nil)}
       ELSE IF blockedByIssueNumber.err # Nil
         THEN {Out(NewToolResultError(blockedByIssueNumber.err[1]), Nil,
                   "validation", <<>>, Nil, Nil, Nil)}
       ELSE IF blockedByOwner.err # Nil
         THEN {Out(NewToolResultError(blockedByOwner.err[1]), Nil, "validation",
                   <<>>, Nil, Nil, Nil)}
       ELSE IF blockedByRepo.err # Nil
         THEN {Out(NewToolResultError(blockedByRepo.err[1]), Nil, "validation",
                   <<>>, Nil, Nil, Nil)}
       ELSE UNION {IF c # Nil
                     THEN {Out(NewToolResultErrorFromErr(
                                 "failed to get GitHub client", c),
                               Nil, "getClient", <<"getClient">>, Nil, Nil, Nil)}
                     ELSE After(<<"getClient">>,
                                removeIssueDependency(owner.v, repo.v, issueNumber.v,
                                    IF blockedByOwner.v = "" THEN owner.v
                                    ELSE blockedByOwner.v,
                                    IF blockedByRepo.v = "" THEN repo.v
                                    ELSE blockedByRepo.v,
                                    blockedByIssueNumber.v)) :
                   c \in GetClientOutcomes}

(* --------------------------- the state machine ------------------------ *)

ToolNames == {"list_blocked_by", "list_blocking", "add_blocked_by",
              "remove_blocked_by"}

Init ==
    /\ pc = "idle"
    /\ tool = "none"
    /\ args = NoArgs
    /\ result = Nil
    /\ herr = Nil
    /\ exit = "none"
    /\ log = <<>>
    /\ req = Nil
    /\ resp = Nil
    /\ doErr = Nil

\* the handler named t, called with a, ends as o
Returns(t, a, o) ==
    /\ pc' = "returned"
    /\ tool' = t
    /\ args' = a
    /\ result' = o.result
    /\ herr' = o.herr
    /\ exit' = o.exit
    /\ log' = o.log
    /\ req' = o.req
    /\ resp' = o.resp
    /\ doErr' = o.doErr

CallListBlockedBy ==
    /\ pc = "idle"
    /\ \E a \in ListArgs : \E o \in ListBlockedBy(a) :
         Returns("list_blocked_by", a, o)

CallListBlocking ==
    /\ pc = "idle"
    /\ \E a \in ListArgs : \E o \in ListBlocking(a) :
         Returns("list_blocking", a, o)

CallAddBlockedBy ==
    /\ pc = "idle"
    /\ \E a \in EditArgs : \E o \in AddBlockedBy(a) :
         Returns("add_blocked_by", a, o)

CallRemoveBlockedBy ==
    /\ pc = "idle"
    /\ \E a \in EditArgs : \E o \in RemoveBlockedBy(a) :
         Returns("remove_blocked_by", a, o)

\* nothing outlives a call: the next invocation starts from nothing
NextCall ==
    /\ pc = "returned"
    /\ pc' = "idle"
    /\ tool' = "none"
    /\ args' = NoArgs
    /\ result' = Nil
    /\ herr' = Nil
    /\ exit' = "none"
    /\ log' = <<>>
    /\ req' = Nil
    /\ resp' = Nil
    /\ doErr' = Nil

Next ==
    \/ CallListBlockedBy
    \/ CallListBlocking
    \/ CallAddBlockedBy
    \/ CallRemoveBlockedBy
    \/ NextCall

Spec == Init /\ [][Next]_vars

(* ------------------------------ vocabulary --------------------------- *)

Returned == pc = "returned"

IsList(t) == t \in {"list_blocked_by", "list_blocking"}
IsEdit(t) == t \in {"add_blocked_by", "remove_blocked_by"}

\* the schema's Required list of each tool, in the order the handlers read it
RequiredOrder(t) ==
    IF IsEdit(t)
      THEN <<"owner", "repo", "issue_number", "blocked_by_issue_number">>
      ELSE <<"owner", "repo", "issue_number">>

TypeOf(p) == IF p \in {"owner", "repo", "blocked_by_owner", "blocked_by_repo"}
             THEN "string" ELSE "number"

MissingRequired ==
    {p \in {RequiredOrder(tool)[k] : k \in 1..Len(RequiredOrder(tool))} :
       args[p].t = "absent"}

\* the first required parameter, in validation order, that is absent or of
\* the wrong type
FirstRejected ==
    LET ord == RequiredOrder(tool)
        k == CHOOSE i \in 1..Len(ord) :
               /\ args[ord[i]].t # TypeOf(ord[i])
               /\ \A j \in 1..(i - 1) : args[ord[j]].t = TypeOf(ord[j])
    IN ord[k]

IsErrorResult == result # Nil /\ result[1].IsError /\ herr = Nil
IsSuccessResult == result # Nil /\ ~result[1].IsError /\ herr = Nil

\* the status codes the specification accepts for each tool
AcceptedSet(t) ==
    CASE IsList(t) -> {200}
      [] t = "add_blocked_by" -> {200, 201}
      [] t = "remove_blocked_by" -> {200, 204}
      [] OTHER -> {}

Count(l, e) == Cardinality({k \in 1..Len(l) : l[k] = e})

(* --------------------------------- C1 --------------------------------- *)

\* C1 as stated: whenever a call omits a required parameter, the handler
\* returns an error-flagged result and a nil handler error, and the message
\* contains the name of a parameter that is missing.
C1_Stated ==
    (Returned /\ MissingRequired # {}) =>
      /\ IsErrorResult
      /\ \E p \in MissingRequired : Contains(result[1].Text, p)

\* C1 (amended): whenever a call omits a required parameter, the handler
\* returns an error-flagged result and a nil handler error, and the message
\* names the first required parameter, in validation order, that is missing
\* or of the wrong type; when that parameter is missing the message is
\* "missing required parameter: <name>".
C1_FirstRejectedNamed ==
    (Returned /\ MissingRequired # {}) =>
      /\ IsErrorResult
      /\ exit = "validation"
      /\ Contains(result[1].Text, FirstRejected)
      /\ (args[FirstRejected].t = "absent" =>
            result[1].Text = "missing required parameter: " \o FirstRejected)

\* a call that omits repo after an owner of the wrong type has been rejected
C1_Witness ==
    /\ Returned
    /\ tool = "remove_blocked_by"
    /\ args["owner"].t = "number"
    /\ args["repo"].t = "absent"
    /\ IsErrorResult
    /\ ~Contains(result[1].Text, "repo")

(* --------------------------------- C2 --------------------------------- *)

ValidEdit ==
    /\ \A k \in 1..4 :
         args[RequiredOrder(tool)[k]].t = TypeOf(RequiredOrder(tool)[k])
    /\ args["blocked_by_owner"].t \in {"absent", "string"}
    /\ args["blocked_by_repo"].t \in {"absent", "string"}

\* the value the body field takes: the cross-repository argument when it is
\* a non-empty string, the primary one otherwise
Defaulted(p, primary) ==
    IF args[p].t = "string" /\ args[p].s # "" THEN args[p].s
    ELSE args[primary].s

\* C2: a valid add_blocked_by or remove_blocked_by call is never rejected by
\* validation (an empty blocked_by_owner or blocked_by_repo is no error); the
\* body it sends has owner = blocked_by_owner when that is a non-empty string
\* and the primary owner otherwise, likewise for repo, and the URL path uses
\* the primary owner and repo.
C2_BodyDefaults ==
    (Returned /\ IsEdit(tool) /\ ValidEdit) =>
      /\ exit # "validation"
      /\ req # Nil =>
           LET head == "{\"owner\":"
                         \o Quote(Defaulted("blocked_by_owner", "owner"))
                         \o ",\"repo\":"
                         \o Quote(Defaulted("blocked_by_repo", "repo")) \o ","
               path == "repos/" \o args["owner"].s \o "/" \o args["repo"].s
                         \o "/issues/"
           IN /\ req[1].Body # Nil
              /\ SubSeq(req[1].Body[1], 1, Len(head)) = head
              /\ SubSeq(req[1].URL, 1, Len(path)) = path

\* a request sent with an empty blocked_by_owner and another repository
C2_Witness ==
    /\ Returned
    /\ tool = "remove_blocked_by"
    /\ args["blocked_by_owner"] = Str("")
    /\ args["blocked_by_repo"] = Str("y")
    /\ req # Nil
    /\ Contains(req[1].Body[1], "\"owner\":\"o\",\"repo\":\"y\"")
    /\ Count(log, "Do") = 1

(* --------------------------------- C3 --------------------------------- *)

\* C3 as stated: a response whose status code is in the tool's accepted set
\* yields a success result and a nil handler error.
C3_Stated ==
    (Returned /\ resp # Nil /\ resp[1].StatusCode \in AcceptedSet(tool)) =>
      IsSuccessResult

\* C3 (amended): a response that client.Do returns with a nil error and whose
\* status code is in the tool's accepted set ({200} list, {200,201} add,
\* {200,204} remove) yields a success result and a nil handler error, without
\* a read of the raw body; a 204 with no body on remove is the success text
\* null, not a decode failure.
C3_AcceptedIsSuccess ==
    (Returned /\ resp # Nil /\ doErr = Nil
       /\ resp[1].StatusCode \in AcceptedSet(tool)) =>
      /\ IsSuccessResult
      /\ exit = "success"
      /\ Count(log, "ReadAll") = 0
      /\ (IsEdit(tool) /\ resp[1].Body = "") => result[1].Text = "null"

\* remove_blocked_by answered 204 with no body
C3_Witness ==
    /\ Returned
    /\ tool = "remove_blocked_by"
    /\ resp # Nil
    /\ resp[1].StatusCode = 204
    /\ resp[1].Body = ""
    /\ IsSuccessResult

(* --------------------------------- C4 --------------------------------- *)

\* C4 as stated: a response whose status code is outside the tool's accepted
\* set yields an error-flagged result whose message contains the raw body.
C4_Stated ==
    (Returned /\ resp # Nil /\ resp[1].StatusCode \notin AcceptedSet(tool)) =>
      /\ IsErrorResult
      /\ Contains(result[1].Text, resp[1].Body)

(* --------------------------------- C5 --------------------------------- *)

PageOf(p) == IF args[p].t = "number" THEN args[p].n ELSE 0

\* C5: the URL of a list request is
\* repos/{owner}/{repo}/issues/{issueNumber}/dependencies/{kind}, kind being
\* blocked_by for list_blocked_by and blocking for list_blocking, followed by
\* ?page=<page>&per_page=<perPage> exactly when page > 0 or perPage > 0.
C5_ListURL ==
    (Returned /\ IsList(tool) /\ req # Nil) =>
      LET kind == IF tool = "list_blocked_by" THEN "blocked_by" ELSE "blocking"
          path == "repos/" \o args["owner"].s \o "/" \o args["repo"].s
                    \o "/issues/" \o Itoa(args["issue_number"].n)
                    \o "/dependencies/" \o kind
          query == "?page=" \o Itoa(PageOf("page"))
                     \o "&per_page=" \o Itoa(PageOf("per_page"))
      IN /\ req[1].Method = "GET"
         /\ (PageOf("page") > 0 \/ PageOf("per_page") > 0) =>
              req[1].URL = path \o query
         /\ ~(PageOf("page") > 0 \/ PageOf("per_page") > 0) =>
              (req[1].URL = path /\ ~Contains(req[1].URL, "?"))

\* a list request sent with per_page alone
C5_Witness ==
    /\ Returned
    /\ tool = "list_blocking"
    /\ args["page"].t = "absent"
    /\ args["per_page"] = Num(1)
    /\ req # Nil
    /\ req[1].URL = "repos/o/r/issues/2/dependencies/blocking?page=0&per_page=1"
    /\ Count(log, "Do") = 1

(* --------------------------------- C6 --------------------------------- *)

\* the dependency records a response carries
RecordsOf(r) == IF r.Deps = Nil THEN <<>> ELSE r.Deps[1]

\* C6 as stated, for the 200 responses that client.Do returns with a nil
\* error: the list tools yield a success result whose text is the JSON array
\* of the response's records, in order, and [] when it carries none.
C6_Stated ==
    (Returned /\ IsList(tool) /\ resp # Nil /\ doErr = Nil
       /\ resp[1].StatusCode = 200) =>
      /\ IsSuccessResult
      /\ result[1].Text = ArrayJSON(RecordsOf(resp[1]))

(* --------------------------------- C7 --------------------------------- *)

\* C7 as stated: the handler error is non-nil only when a local JSON encode
\* or decode step failed, and every failure caused by the caller's input or
\* by the remote service is an error-flagged result with a nil handler error.
C7_Stated ==
    Returned =>
      /\ herr # Nil => exit \in {"marshalRequest", "marshalResponse"}
      /\ exit \in {"validation", "getClient", "newRequest", "clientError",
                   "status", "readBody"} => IsErrorResult

(* --------------------------------- C8 --------------------------------- *)

\* C8: a handler invocation issues at most one HTTP request; when the request
\* fails in the client with no response, the handler ends at once with the
\* API error result and a nil handler error: no second request, no read of a
\* body.
C8_NoRetry ==
    Returned =>
      /\ Count(log, "Do") <= 1
      /\ (doErr # Nil /\ resp = Nil) =>
           /\ IsErrorResult
           /\ Count(log, "Do") = 1
           /\ log[Len(log)] = "Do"
           /\ Count(log, "ReadAll") = 0

\* a request that failed in transport
C8_Witness ==
    /\ Returned
    /\ tool = "list_blocked_by"
    /\ doErr = <<"connection refused">>
    /\ resp = Nil
    /\ Contains(result[1].Text, "connection refused")

(* --------------------------------- C9 --------------------------------- *)

\* C9 as stated: in an invocation that obtained a response, the handler
\* closes the response body exactly once, as its last step, after any read.
C9_Stated ==
    (Returned /\ resp # Nil) =>
      /\ Count(log, "Close") = 1
      /\ log[Len(log)] = "Close"

(* --------------------------------- C10 -------------------------------- *)

\* C10 as stated: in a request that was sent, the body of add_blocked_by and
\* remove_blocked_by has a positive issue_number and non-empty owner and
\* repo, and the issue number in the URL path is positive.
C10_Stated ==
    (Returned /\ Count(log, "Do") = 1) =>
      /\ ~Contains(req[1].URL, "/issues/-")
      /\ ~Contains(req[1].URL, "/issues/0/")
      /\ IsEdit(tool) =>
           /\ ~Contains(req[1].Body[1], "\"issue_number\":-")
           /\ ~Contains(req[1].Body[1], "\"issue_number\":0}")
           /\ ~Contains(req[1].Body[1], "\"owner\":\"\"")
           /\ ~Contains(req[1].Body[1], "\"repo\":\"\"")

(* --------------------------------- C11 -------------------------------- *)

\* the outcomes of the other of the two handlers add_blocked_by and
\* remove_blocked_by on the same argument map
OtherEdit(a) ==
    IF tool = "add_blocked_by" THEN RemoveBlockedBy(a) ELSE AddBlockedBy(a)

MethodOf(t) == IF t = "add_blocked_by" THEN "POST" ELSE "DELETE"

OtherTool == IF tool = "add_blocked_by" THEN "remove_blocked_by"
             ELSE "add_blocked_by"

\* C11: on every argument map add_blocked_by and remove_blocked_by accept or
\* reject alike, with the same validation message; when they accept, both
\* build the path repos/{owner}/{repo}/issues/{issueNumber}/dependencies/
\* blocked_by and the JSON body of the defaulted owner, the defaulted repo and
\* the blocking issue's number, and the requests differ in the method alone:
\* POST for add, DELETE for remove.  Each argument map is judged once: in the
\* state where the call was rejected, or in the state where its request was
\* sent and failed in transport (the request is built before anything is
\* known of the answer).
C11_AddRemoveAgree ==
    (Returned /\ IsEdit(tool)
       /\ (exit = "validation" \/ (doErr # Nil /\ resp = Nil))) =>
      LET other == OtherEdit(args)
          path == "repos/" \o args["owner"].s \o "/" \o args["repo"].s
                    \o "/issues/" \o Itoa(args["issue_number"].n)
                    \o "/dependencies/blocked_by"
          body == "{\"owner\":"
                    \o Quote(Defaulted("blocked_by_owner", "owner"))
                    \o ",\"repo\":"
                    \o Quote(Defaulted("blocked_by_repo", "repo"))
                    \o ",\"issue_number\":"
                    \o Itoa(args["blocked_by_issue_number"].n) \o "}"
      IN /\ exit = "validation" =>
              \A o \in other :
                o.exit = "validation" /\ o.result = result /\ o.herr = herr
         /\ exit # "validation" => \A o \in other : o.exit # "validation"
         /\ req # Nil =>
              /\ req[1] = [Method |-> MethodOf(tool), URL |-> path,
                           Body |-> <<body>>]
              /\ \E o \in other : o.req # Nil
              /\ \A o \in other :
                   o.req # Nil =>
                     o.req[1] = [Method |-> MethodOf(OtherTool), URL |-> path,
                                 Body |-> <<body>>]

\* a DELETE request for a dependency on an issue of another owner, which
\* add_blocked_by would have sent as a POST with the same path and body
C11_Witness ==
    /\ Returned
    /\ tool = "remove_blocked_by"
    /\ args["blocked_by_owner"] = Str("x")
    /\ args["issue_number"] = Num(2)
    /\ args["blocked_by_issue_number"] = Num(1)
    /\ req # Nil
    /\ req[1].Method = "DELETE"
    /\ doErr # Nil
    /\ resp = Nil
    /\ \E o \in AddBlockedBy(args) :
         /\ o.req # Nil
         /\ o.req[1].Method = "POST"
         /\ o.req[1].URL = req[1].URL
         /\ o.req[1].Body = req[1].Body

(* --------------------------------- C12 -------------------------------- *)

\* the validation steps of each handler, in the order of its statements
ValidationOrder(t) ==
    IF IsEdit(t)
      THEN <<"owner", "repo", "issue_number", "blocked_by_issue_number",
             "blocked_by_owner", "blocked_by_repo">>
      ELSE <<"owner", "repo", "issue_number", "pagination">>

\* whether the argument map fails parameter p: a required parameter must be
\* present with its type, an optional one may be absent
FailsParam(p) ==
    IF p \in {"owner", "repo", "issue_number", "blocked_by_issue_number"}
      THEN args[p].t # TypeOf(p)
      ELSE args[p].t \notin {"absent", TypeOf(p)}

\* whether the argument map fails a validation step
FailsStep(st) ==
    IF st = "pagination" THEN FailsParam("page") \/ FailsParam("per_page")
    ELSE FailsParam(st)

\* whether a message is the validator's message about exactly parameter p
MessageAbout(text, p) ==
    \/ text = "missing required parameter: " \o p
    \/ SubSeq(text, 1, Len(p) + 14) = "parameter " \o p \o " is "

\* whether a message is about a parameter that fails in step st
MessageOfStep(text, st) ==
    IF st = "pagination"
      THEN \E p \in {"page", "per_page"} : FailsParam(p) /\ MessageAbout(text, p)
      ELSE MessageAbout(text, st)

\* C12: a handler validates owner, repo, issue_number, then
\* blocked_by_issue_number, blocked_by_owner, blocked_by_repo (add, remove) or
\* the pagination (list), in this order; the first step that fails decides the
\* message of the error result, and getClient and the HTTP request happen only
\* when every step has succeeded, getClient first.
C12_ValidationOrder ==
    Returned =>
      LET ord == ValidationOrder(tool)
          failing == {k \in 1..Len(ord) : FailsStep(ord[k])}
      IN /\ failing # {} =>
              LET first == CHOOSE k \in failing : \A j \in failing : k <= j
              IN /\ exit = "validation"
                 /\ IsErrorResult
                 /\ MessageOfStep(result[1].Text, ord[first])
                 /\ log = <<>>
                 /\ req = Nil
                 /\ resp = Nil
         /\ failing = {} =>
              /\ exit # "validation"
              /\ log # <<>>
              /\ log[1] = "getClient"
              /\ Count(log, "getClient") = 1

\* a call rejected for its blocked_by_owner, though its blocked_by_repo is
\* of the wrong type too
C12_Witness ==
    /\ Returned
    /\ tool = "add_blocked_by"
    /\ args["blocked_by_owner"].t = "number"
    /\ args["blocked_by_repo"].t = "number"
    /\ exit = "validation"
    /\ result[1].Text = "parameter blocked_by_owner is not of type string, is float64"
    /\ log = <<>>

(* --------------------------------- C13 -------------------------------- *)

\* C13: every call of a handler returns either a result with a nil error or
\* a nil result with an error, never both and never neither; and a result
\* that is not error-flagged is returned only after client.Do, called once,
\* returned a response with a nil error and a status code the tool accepts.
C13_OneOutcome ==
    Returned =>
      /\ (result # Nil) # (herr # Nil)
      /\ IsSuccessResult =>
           /\ exit = "success"
           /\ Count(log, "Do") = 1
           /\ resp # Nil
           /\ doErr = Nil
           /\ resp[1].StatusCode \in AcceptedSet(tool)

\* a removal answered 204, returned as a success result with a nil error
C13_Witness ==
    /\ Returned
    /\ tool = "remove_blocked_by"
    /\ resp # Nil
    /\ resp[1].StatusCode = StatusNoContent
    /\ doErr = Nil
    /\ IsSuccessResult
    /\ herr = Nil

====
